---- MODULE Spec2Model ----
(***************************************************************************)
(* Model of the download / decrypt / repair pipeline and of the platform   *)
(* API facade of the music bot (src/src/helpers/_api.py and                *)
(* src/src/helpers/_dl_helper.py).                                         *)
(*                                                                         *)
(* The download directory is a partial function from paths to a content    *)
(* tag.  A path is <<name, suffix>>.  Every call of the external HTTP      *)
(* client, of the transcoder and of os.remove is a nondeterministic choice *)
(* over its outcomes.  decrypt_audio, rebuild_ogg, _sanitize_query and     *)
(* _parse_tracks_response are also run alone, on inputs drawn from bounded *)
(* sets.                                                                   *)
(***************************************************************************)
EXTENDS Integers, Sequences, FiniteSets, TLC

\* ------------------------------------------------------------------ bounds
MaxCalls == 2      \* invocations of download_track per task
MaxEntries == 2    \* entries of a downloaded archive

\* ------------------------------------------------------------- the inputs
Procs == {1, 2}
Tokens == {"t1", "t2"}
\* The file name the HTTP client gives a download that names no destination.
\* The client is taken to give the requests of different tasks different
\* names, the case in which the primary download itself cannot collide.
ServerNames(p) == IF p = 1 THEN {"s1"} ELSE {"s2"}
NoPath == <<"", "">>

EncFile(tc) == <<tc, ".encrypted.ogg">>
DecFile(tc) == <<tc, ".decrypted.ogg">>
OutFile(tc) == <<tc, ".ogg">>
Mp3File(tc) == <<tc, ".mp3">>

DownloadSuffixes == {".mp3", ".zip", ".bin"}
EntryPaths == {<<"e1", ".mp3">>, <<"e2", ".mp3">>, <<"e1", ".txt">>}

RECURSIVE SeqsUpTo(_, _)
SeqsUpTo(S, n) ==
    IF n = 0 THEN {<<>>}
    ELSE LET shorter == SeqsUpTo(S, n - 1)
         IN shorter \cup {Append(s, x) : s \in {q \in shorter : Len(q) = n - 1}, x \in S}

Archives == SeqsUpTo(EntryPaths, MaxEntries)

NoTrack ==
    [present |-> FALSE, platform |-> "", id |-> "", tc |-> "",
     isPlaylist |-> FALSE, cdnurl |-> FALSE, key |-> "none"]

TracksOf(tcs) ==
    [present : {TRUE}, platform : {"spotify", "soundcloud"}, id : {"", "i1"},
     tc : tcs, isPlaylist : BOOLEAN, cdnurl : BOOLEAN,
     key : {"none", "valid", "badhex"}]

\* ------------------------------------------------------------- filesystem
Exists(f, p) == p \in DOMAIN f
WriteFile(f, p, c) == [q \in DOMAIN f \cup {p} |-> IF q = p THEN c ELSE f[q]]
RemoveFiles(f, ps) == [q \in DOMAIN f \ ps |-> f[q]]

RECURSIVE WriteAll(_, _, _)
WriteAll(f, ps, c) ==
    IF ps = <<>> THEN f ELSE WriteAll(WriteFile(f, Head(ps), c), Tail(ps), c)

Range(s) == {s[i] : i \in 1..Len(s)}

\* ---------------------------------------------------------- return values
Pending == [kind |-> "pending", path |-> NoPath, paths |-> <<>>]
RetNone == [kind |-> "none", path |-> NoPath, paths |-> <<>>]
RetPath(p) == [kind |-> "path", path |-> p, paths |-> <<>>]
RetList(ps) == [kind |-> "list", path |-> NoPath, paths |-> ps]

VARIABLES
    track,      \* track[p]: the TrackInfo handed to download_track
    pc,         \* pc[p]: where task p stands
    ret,        \* ret[p]: what download_track returned
    poRet,      \* poRet[p]: what process_original returned
    trace,      \* trace[p]: the stages of the current invocation, in order
    fs,         \* the download directory
    calls,      \* calls[p]: invocations so far
    budget,     \* budget[p]: invocations the scenario allows task p
    dlPath,     \* dlPath[p]: result.file_path of the primary download
    touched,    \* touched[p]: paths the current invocation created, wrote or deleted
    rmErr,      \* rmErr[p]: paths whose os.remove raised in _cleanup
    entryOut,   \* entryOut[p]: <tc>.ogg existed when download_track was invoked
    cfg,        \* config.API_URL and config.API_KEY are set
    op,         \* the facade method called
    query,      \* self.query: "none", free "text", or a "url" of a known platform
    apc,        \* where the facade call stands
    reqs,       \* the requests handed to client.make_request, in order
    primary,    \* how the call of the new endpoint went
    legacy,     \* how the call of the configured API went
    aret,       \* what the facade method returned
    payload,    \* the argument of _parse_tracks_response
    parsed,     \* its result
    aesKey,     \* the key decrypt_audio builds its cipher from
    original,   \* the bytes first handed to decrypt_audio
    fin,        \* the content of the file decrypt_audio reads
    fout,       \* the content of the file decrypt_audio writes
    finPos,     \* the read offset in fin
    cipher,     \* keystream bytes the cipher object has used so far
    dpc,        \* where the run of decrypt_audio stands
    runs,       \* completed runs of decrypt_audio
    oggInput,   \* the file first handed to rebuild_ogg
    oggBefore,  \* the file before the latest call of rebuild_ogg
    oggFile,    \* the file now
    oggRuns,    \* completed calls of rebuild_ogg
    rawQuery,   \* the string first handed to _sanitize_query
    sanitized,  \* the result of the latest call of _sanitize_query
    sanRuns     \* completed calls of _sanitize_query

dlVars == <<track, pc, ret, poRet, trace, fs, calls, budget, dlPath, touched,
            rmErr, entryOut>>
apiVars == <<cfg, op, query, apc, reqs, primary, legacy, aret>>
parseVars == <<payload, parsed>>
cipherVars == <<aesKey, original, fin, fout, finPos, cipher, dpc, runs>>
oggVars == <<oggInput, oggBefore, oggFile, oggRuns>>
queryVars == <<rawQuery, sanitized, sanRuns>>
pureVars == <<parseVars, cipherVars, oggVars, queryVars>>

vars == <<dlVars, apiVars, pureVars>>

\* ------------------------------------------------------ download_track
\* `track_id = track.id or track.tc`
TrackId(t) == IF t.id # "" THEN t.id ELSE t.tc

\* A handler that falls back to the Spotify pipeline whatever the platform.
FallsBackAlways(t) == TRUE

\* `if track.platform.lower() == "spotify"` in the except handler
FallsBackToOriginal(t) == t.platform = "spotify"

Log(p, evs) == trace' = [trace EXCEPT ![p] = @ \o evs]
Goto(p, l) == pc' = [pc EXCEPT ![p] = l]
Return(p, v) == /\ ret' = [ret EXCEPT ![p] = v]
                /\ pc' = [pc EXCEPT ![p] = "done"]
Touch(p, ps) == touched' = [touched EXCEPT ![p] = @ \cup ps]

Invoke(p) ==
    /\ pc[p] \in {"idle", "done"}
    /\ calls[p] < budget[p]
    /\ calls' = [calls EXCEPT ![p] = @ + 1]
    /\ pc' = [pc EXCEPT ![p] = "dt_start"]
    /\ ret' = [ret EXCEPT ![p] = Pending]
    /\ poRet' = [poRet EXCEPT ![p] = Pending]
    /\ trace' = [trace EXCEPT ![p] = <<>>]
    /\ touched' = [touched EXCEPT ![p] = {}]
    /\ rmErr' = [rmErr EXCEPT ![p] = {}]
    /\ dlPath' = [dlPath EXCEPT ![p] = NoPath]
    /\ entryOut' = [entryOut EXCEPT ![p] = Exists(fs, OutFile(track[p].tc))]
    /\ UNCHANGED <<track, fs, budget>>
    /\ UNCHANGED <<apiVars, pureVars>>

DownloadTrackEntry(p) ==
    /\ pc[p] = "dt_start"
    /\ LET t == track[p] IN
         IF ~t.present
           THEN Return(p, RetNone) /\ Log(p, <<"no_track">>)
         ELSE IF t.platform = "spotify"
           THEN IF ~t.isPlaylist /\ TrackId(t) = ""
                  THEN Goto(p, "dt_except") /\ Log(p, <<"no_id">>) /\ UNCHANGED ret
                  ELSE Goto(p, "dt_primary") /\ UNCHANGED <<ret, trace>>
         ELSE IF ~t.cdnurl
           THEN Return(p, RetNone) /\ Log(p, <<"no_cdnurl">>)
           ELSE Goto(p, "dt_direct") /\ UNCHANGED <<ret, trace>>
    /\ UNCHANGED <<track, poRet, fs, calls, budget, dlPath, touched, rmErr, entryOut>>
    /\ UNCHANGED <<apiVars, pureVars>>

PrimaryDownload(p) ==
    /\ pc[p] = "dt_primary"
    /\ \/ /\ Goto(p, "dt_except")
          /\ Log(p, <<"net_primary", "primary_raised">>)
          /\ UNCHANGED <<ret, fs, dlPath, touched>>
       \/ /\ Goto(p, "dt_except")
          /\ Log(p, <<"net_primary", "primary_unsuccessful">>)
          /\ UNCHANGED <<ret, fs, dlPath, touched>>
       \/ \E n \in ServerNames(p), sfx \in DownloadSuffixes :
            LET file == <<n, sfx>> IN
            /\ fs' = WriteFile(fs, file, "data")
            /\ Touch(p, {file})
            /\ dlPath' = [dlPath EXCEPT ![p] = file]
            /\ IF sfx = ".mp3"
                 THEN Return(p, RetPath(file)) /\ Log(p, <<"net_primary", "primary_mp3">>)
               ELSE IF sfx = ".zip"
                 THEN Goto(p, "dt_extract") /\ Log(p, <<"net_primary", "primary_zip">>)
                      /\ UNCHANGED ret
               ELSE Goto(p, "dt_except") /\ Log(p, <<"net_primary", "primary_badtype">>)
                    /\ UNCHANGED ret
    /\ UNCHANGED <<track, poRet, calls, budget, rmErr, entryOut>>
    /\ UNCHANGED <<apiVars, pureVars>>

IsMp3(e) == e[2] = ".mp3"
Extracted(entries) == SelectSeq(entries, IsMp3)

ExtractZip(p) ==
    /\ pc[p] = "dt_extract"
    /\ \E entries \in Archives :
         \/ \* ZipFile(zip_path) raises: nothing extracted, the archive stays
            /\ Return(p, RetList(<<>>))
            /\ Log(p, <<"extract", "extract_raised">>)
            /\ UNCHANGED <<fs, touched>>
         \/ \* extract raises at entry k + 1, after the first k entries
            \E k \in 0..(Len(entries) - 1) :
              /\ IsMp3(entries[k + 1])
              /\ fs' = WriteAll(fs, Extracted(SubSeq(entries, 1, k)), "data")
              /\ Touch(p, Range(Extracted(SubSeq(entries, 1, k))))
              /\ Return(p, RetList(<<>>))
              /\ Log(p, <<"extract", "extract_raised">>)
         \/ \* every entry extracted, os.remove(zip_path) raises
            /\ fs' = WriteAll(fs, Extracted(entries), "data")
            /\ Touch(p, Range(Extracted(entries)))
            /\ Return(p, RetList(<<>>))
            /\ Log(p, <<"extract", "extract_raised">>)
         \/ /\ fs' = RemoveFiles(WriteAll(fs, Extracted(entries), "data"), {dlPath[p]})
            /\ Touch(p, Range(Extracted(entries)) \cup {dlPath[p]})
            /\ Return(p, RetList(Extracted(entries)))
            /\ Log(p, <<"extract">>)
    /\ UNCHANGED <<track, poRet, calls, budget, dlPath, rmErr, entryOut>>
    /\ UNCHANGED <<apiVars, pureVars>>

DirectDownload(p) ==
    /\ pc[p] = "dt_direct"
    /\ \/ /\ Goto(p, "dt_except")
          /\ Log(p, <<"net_direct", "direct_raised">>)
          /\ UNCHANGED <<ret, fs, touched>>
       \/ /\ Return(p, RetNone)
          /\ Log(p, <<"net_direct", "direct_unsuccessful">>)
          /\ UNCHANGED <<fs, touched>>
       \/ /\ fs' = WriteFile(fs, Mp3File(track[p].tc), "data")
          /\ Touch(p, {Mp3File(track[p].tc)})
          /\ Return(p, RetPath(Mp3File(track[p].tc)))
          /\ Log(p, <<"net_direct", "direct_ok">>)
    /\ UNCHANGED <<track, poRet, calls, budget, dlPath, rmErr, entryOut>>
    /\ UNCHANGED <<apiVars, pureVars>>

DownloadTrackExcept(p) ==
    /\ pc[p] = "dt_except"
    /\ IF FallsBackToOriginal(track[p])
         THEN Goto(p, "po_start") /\ Log(p, <<"except">>) /\ UNCHANGED ret
         ELSE Return(p, RetNone) /\ Log(p, <<"except">>)
    /\ UNCHANGED <<track, poRet, fs, calls, budget, dlPath, touched, rmErr, entryOut>>
    /\ UNCHANGED <<apiVars, pureVars>>

\* A handler that never gets the result of the original logic back.
StuckAfterOriginal == "dt_await"

\* `return await SpotifyDownload(track).process_original()`: download_track is
\* over when process_original is
AfterOriginal == "done"

DownloadTrackReturn(p) ==
    /\ pc[p] = "dt_return"
    /\ ret' = [ret EXCEPT ![p] = poRet[p]]
    /\ Goto(p, AfterOriginal)
    /\ UNCHANGED <<track, poRet, trace, fs, calls, budget, dlPath, touched, rmErr, entryOut>>
    /\ UNCHANGED <<apiVars, pureVars>>

\* ------------------------------------------- SpotifyDownload.process_original
\* A cleanup that forgets the decrypted file.
CleanupEncryptedOnly(tc) == {EncFile(tc)}

\* `[self.encrypted_file, self.decrypted_file]`, the files _cleanup removes
CleanupFiles(tc) == {EncFile(tc), DecFile(tc)}

\* `if not self.track.cdnurl or not self.track.key`
MissingCdnOrKey(t) == ~t.cdnurl \/ t.key = "none"

PoReturn(p, v) == /\ poRet' = [poRet EXCEPT ![p] = v]
                  /\ pc' = [pc EXCEPT ![p] = "dt_return"]

ProcessOriginalEntry(p) ==
    /\ pc[p] = "po_start"
    /\ LET t == track[p] IN
         IF Exists(fs, OutFile(t.tc))
           THEN PoReturn(p, RetPath(OutFile(t.tc))) /\ Log(p, <<"po_start", "po_exists">>)
         ELSE IF MissingCdnOrKey(t)
           THEN PoReturn(p, RetNone) /\ Log(p, <<"po_start", "po_missing">>)
           ELSE Goto(p, "po_download") /\ Log(p, <<"po_start">>) /\ UNCHANGED poRet
    /\ UNCHANGED <<track, ret, fs, calls, budget, dlPath, touched, rmErr, entryOut>>
    /\ UNCHANGED <<apiVars, pureVars>>

\* `await self.client.download_file(self.track.cdnurl, self.encrypted_file)`:
\* the result is not looked at; only an exception leaves the pipeline.
PoDownload(p) ==
    /\ pc[p] = "po_download"
    /\ LET enc == EncFile(track[p].tc) IN
       \/ /\ Goto(p, "po_cleanup_fail")
          /\ Log(p, <<"net_cdn", "cdn_raised">>)
          /\ \/ UNCHANGED <<fs, touched>>
             \/ fs' = WriteFile(fs, enc, "partial") /\ Touch(p, {enc})
       \/ /\ Goto(p, "po_decrypt")
          /\ Log(p, <<"net_cdn", "cdn_unsuccessful">>)
          /\ \/ UNCHANGED <<fs, touched>>
             \/ fs' = WriteFile(fs, enc, "partial") /\ Touch(p, {enc})
       \/ /\ Goto(p, "po_decrypt")
          /\ Log(p, <<"net_cdn", "cdn_ok">>)
          /\ fs' = WriteFile(fs, enc, "full")
          /\ Touch(p, {enc})
    /\ UNCHANGED <<track, ret, poRet, calls, budget, dlPath, rmErr, entryOut>>
    /\ UNCHANGED <<apiVars, pureVars>>

PoDecrypt(p) ==
    /\ pc[p] = "po_decrypt"
    /\ LET enc == EncFile(track[p].tc)
           dec == DecFile(track[p].tc) IN
       IF track[p].key = "badhex"
         THEN \* bytes.fromhex raises
              /\ Goto(p, "po_cleanup_fail")
              /\ Log(p, <<"decrypt", "decrypt_raised">>)
              /\ UNCHANGED <<fs, touched>>
         ELSE IF ~Exists(fs, enc)
         THEN \* open(encrypted_file, "rb") raises; the handler logs and re-raises
              /\ Goto(p, "po_cleanup_fail")
              /\ Log(p, <<"decrypt", "source_missing", "decrypt_raised">>)
              /\ UNCHANGED <<fs, touched>>
         ELSE \/ /\ fs' = WriteFile(fs, dec, fs[enc])
                 /\ Touch(p, {dec})
                 /\ Goto(p, "po_rebuild")
                 /\ Log(p, <<"decrypt">>)
              \/ \* a read or write fails part way
                 /\ fs' = WriteFile(fs, dec, "partial")
                 /\ Touch(p, {dec})
                 /\ Goto(p, "po_cleanup_fail")
                 /\ Log(p, <<"decrypt", "decrypt_raised">>)
    /\ UNCHANGED <<track, ret, poRet, calls, budget, dlPath, rmErr, entryOut>>
    /\ UNCHANGED <<apiVars, pureVars>>

\* rebuild_ogg(self.decrypted_file): patches the file in place, raises nothing
PoRebuild(p) ==
    /\ pc[p] = "po_rebuild"
    /\ LET dec == DecFile(track[p].tc) IN
       IF Exists(fs, dec)
         THEN Touch(p, {dec}) /\ Log(p, <<"rebuild">>)
         ELSE UNCHANGED touched /\ Log(p, <<"rebuild_missing">>)
    /\ Goto(p, "po_ffmpeg")
    /\ UNCHANGED <<track, ret, poRet, fs, calls, budget, dlPath, rmErr, entryOut>>
    /\ UNCHANGED <<apiVars, pureVars>>

\* A fix_audio that does not look at the exit code.
ReturncodeIgnored(rc) == FALSE

\* `if process.returncode != 0`
ReturncodeFails(rc) == rc # 0

\* what fix_audio does on an exit code: raise, or return to the pipeline
AfterFfmpeg(rc) == IF ReturncodeFails(rc) THEN "po_cleanup_fail" ELSE "po_cleanup_ok"

\* fix_audio: ffmpeg -i <decrypted> -c copy <output>
PoFfmpeg(p) ==
    /\ pc[p] = "po_ffmpeg"
    /\ LET out == OutFile(track[p].tc) IN
       \/ \* the subprocess cannot be started
          /\ Goto(p, "po_cleanup_fail")
          /\ Log(p, <<"ffmpeg", "ffmpeg_raised">>)
          /\ UNCHANGED <<fs, touched>>
       \/ \* non-zero exit code, before the output was opened
          /\ Goto(p, AfterFfmpeg(1))
          /\ Log(p, <<"ffmpeg", "ffmpeg_nonzero">>)
          /\ UNCHANGED <<fs, touched>>
       \/ \* non-zero exit code, after part of the output was written
          /\ Goto(p, AfterFfmpeg(1))
          /\ Log(p, <<"ffmpeg", "ffmpeg_nonzero">>)
          /\ fs' = WriteFile(fs, out, "partial")
          /\ Touch(p, {out})
       \/ /\ Goto(p, AfterFfmpeg(0))
          /\ Log(p, <<"ffmpeg", "ffmpeg_zero">>)
          /\ fs' = WriteFile(fs, out, "repacked")
          /\ Touch(p, {out})
    /\ UNCHANGED <<track, ret, poRet, calls, budget, dlPath, rmErr, entryOut>>
    /\ UNCHANGED <<apiVars, pureVars>>

\* _cleanup, then `return self.output_file` or `return None`
PoCleanup(p) ==
    /\ pc[p] \in {"po_cleanup_ok", "po_cleanup_fail"}
    /\ LET present == {f \in CleanupFiles(track[p].tc) : Exists(fs, f)} IN
       \E failing \in SUBSET present :
         /\ fs' = RemoveFiles(fs, present \ failing)
         /\ Touch(p, present \ failing)
         /\ rmErr' = [rmErr EXCEPT ![p] = failing]
    /\ Log(p, <<"cleanup">>)
    /\ IF pc[p] = "po_cleanup_ok"
         THEN PoReturn(p, RetPath(OutFile(track[p].tc)))
         ELSE PoReturn(p, RetNone)
    /\ UNCHANGED <<track, ret, calls, budget, dlPath, entryOut>>
    /\ UNCHANGED <<apiVars, pureVars>>

\* ============================================================ ApiData
MaxResults == 2    \* entries of a `results` list an endpoint returns
MaxParseLen == 3   \* entries of a `results` list handed to the parser alone

\* The entries of a `results` list: JSON null, a string, the empty mapping,
\* two mappings that fit the track record and one that does not.
Entries == {"null", "str", "{}", "m1", "m2", "bad"}
IsMapping(e) == e \in {"{}", "m1", "m2", "bad"}
EntryTruthy(e) == e \notin {"null", "{}"}

\* `MusicTrack(**track)`: the record built from a mapping; a mapping whose
\* fields do not fit the record makes the constructor raise.
Fits(e) == e \in {"m1", "m2"}
MusicTrack(e) == <<"MusicTrack", e>>

\* A JSON payload: none, {}, a non-mapping (a list), a mapping without a
\* `results` key that is a track record ("track") or is not ("dict"), and a
\* mapping with `results`: a list, or null.
PNone == [shape |-> "none", results |-> <<>>]
PayloadsOf(n) ==
    {[shape |-> sh, results |-> <<>>] :
        sh \in {"none", "emptydict", "notdict", "track", "dict", "results_null"}}
      \cup {[shape |-> "results", results |-> r] : r \in SeqsUpTo(Entries, n)}

Truthy(d) == d.shape \notin {"none", "emptydict"}
IsDict(d) == d.shape \in {"emptydict", "track", "dict", "results", "results_null"}
HasResults(d) == d.shape \in {"results", "results_null"}
ResultsTruthy(d) == d.shape = "results" /\ d.results # <<>>

ANone == [kind |-> "none", tracks |-> <<>>]
ARaised == [kind |-> "raised", tracks |-> <<>>]
APending == [kind |-> "pending", tracks |-> <<>>]
ATracks(ts) == [kind |-> "tracks", tracks |-> ts]
ATrackInfo == [kind |-> "track", tracks |-> <<>>]

\* `if track and isinstance(track, dict)`
KeepsEntry(e) == EntryTruthy(e) /\ IsMapping(e)

ParseTracksResponse(d) ==
    IF ~Truthy(d) \/ ~IsDict(d) \/ ~HasResults(d) THEN ANone
    ELSE IF d.shape = "results_null" THEN ARaised
    ELSE LET kept == SelectSeq(d.results, KeepsEntry) IN
         IF \E i \in 1..Len(kept) : ~Fits(kept[i]) THEN ARaised
         ELSE IF kept = <<>> THEN ANone
         ELSE ATracks([i \in 1..Len(kept) |-> MusicTrack(kept[i])])

\* A caller that drops the parsed result.
ParseIfDataNever(d) == ANone

\* `self._parse_tracks_response(data) if data else None`
ParseIfData(d) == IF Truthy(d) THEN ParseTracksResponse(d) ELSE ANone

\* The constructor of the track record raises on a mapping that does not have
\* its fields.
FitsTrackInfo(d) == d.shape = "track"

\* `TrackInfo(**data) if data else None`: `**data` raises a TypeError on data
\* that is no mapping, before the constructor is entered.
TrackInfoIfData(d) ==
    IF ~Truthy(d) THEN ANone
    ELSE IF ~IsDict(d) THEN ARaised
    ELSE IF FitsTrackInfo(d) THEN ATrackInfo
    ELSE ARaised

\* A facade that takes the configuration for granted.
CredsAssumed == TRUE

\* `not self.api_url or not self.api_key`
CredsOk == cfg.apiUrl /\ cfg.apiKey

\* is_valid(self.query)
IsValid(q) == q = "url" /\ CredsOk

\* `if data and "results" in data` (get_info)
GetInfoAccepts(d) == Truthy(d) /\ HasResults(d)

\* A search that never takes the primary response.
SearchAcceptsNothing(d) == FALSE

\* `if response and "results" in response and response["results"]` (search)
SearchAccepts(d) == Truthy(d) /\ HasResults(d) /\ ResultsTruthy(d)

NoCall == [called |-> FALSE, sent |-> FALSE, threw |-> FALSE,
           parseRaised |-> FALSE, data |-> PNone]

AReturn(v) == aret' = v /\ apc' = "done"

SearchEntry ==
    /\ apc = "start" /\ op = "search"
    /\ IF query = "none" THEN AReturn(ANone)
       ELSE IF IsValid(query) THEN apc' = "gi_start" /\ UNCHANGED aret
       ELSE apc' = "s_primary" /\ UNCHANGED aret
    /\ UNCHANGED <<cfg, op, query, reqs, primary, legacy>>
    /\ UNCHANGED <<dlVars, pureVars>>

GetInfoEntry ==
    /\ \/ apc = "start" /\ op = "get_info"
       \/ apc = "gi_start"
    /\ IF query = "none" \/ ~IsValid(query) THEN AReturn(ANone)
       ELSE apc' = "gi_primary" /\ UNCHANGED aret
    /\ UNCHANGED <<cfg, op, query, reqs, primary, legacy>>
    /\ UNCHANGED <<dlVars, pureVars>>

\* The try block around the new endpoint: the request, and the parse of an
\* accepted response; whatever raises inside is caught and the method goes on
\* to the configured API.
Accepts(method, d) ==
    IF method = "search" THEN SearchAccepts(d) ELSE GetInfoAccepts(d)

PrimaryAttempt(req, method, fallback) ==
    /\ reqs' = Append(reqs, req)
    /\ \/ /\ primary' = [NoCall EXCEPT !.called = TRUE, !.sent = TRUE, !.threw = TRUE]
          /\ apc' = fallback
          /\ UNCHANGED aret
       \/ \E d \in PayloadsOf(MaxResults) :
            LET r == ParseTracksResponse(d) IN
            IF Accepts(method, d) /\ r # ARaised
              THEN /\ primary' = [NoCall EXCEPT !.called = TRUE, !.sent = TRUE, !.data = d]
                   /\ AReturn(r)
              ELSE /\ primary' = [NoCall EXCEPT !.called = TRUE, !.sent = TRUE, !.data = d,
                                                !.parseRaised = Accepts(method, d)]
                   /\ apc' = fallback
                   /\ UNCHANGED aret
    /\ UNCHANGED <<cfg, op, query, legacy>>

\* _make_api_request(endpoint), then what the caller makes of its data
ResultOf(method, d) ==
    IF method = "get_track" THEN TrackInfoIfData(d) ELSE ParseIfData(d)

LegacyAttempt(req, method) ==
    /\ IF ~CredsOk
         THEN /\ legacy' = [NoCall EXCEPT !.called = TRUE]
              /\ AReturn(ResultOf(method, PNone))
              /\ UNCHANGED reqs
         ELSE /\ reqs' = Append(reqs, req)
              /\ \/ /\ legacy' = [NoCall EXCEPT !.called = TRUE, !.sent = TRUE, !.threw = TRUE]
                    /\ AReturn(ARaised)
                 \/ \E d \in PayloadsOf(MaxResults) :
                      /\ legacy' = [NoCall EXCEPT !.called = TRUE, !.sent = TRUE, !.data = d]
                      /\ AReturn(ResultOf(method, d))
    /\ UNCHANGED <<cfg, op, query, primary>>

GetInfoPrimary ==
    /\ apc = "gi_primary"
    /\ PrimaryAttempt("primary_url", "get_info", "gi_legacy")
    /\ UNCHANGED <<dlVars, pureVars>>

GetInfoLegacy ==
    /\ apc = "gi_legacy"
    /\ LegacyAttempt("legacy_get_url", "get_info")
    /\ UNCHANGED <<dlVars, pureVars>>

SearchPrimary ==
    /\ apc = "s_primary"
    /\ PrimaryAttempt("primary_search", "search", "s_legacy")
    /\ UNCHANGED <<dlVars, pureVars>>

SearchLegacy ==
    /\ apc = "s_legacy"
    /\ LegacyAttempt("legacy_search_track", "search")
    /\ UNCHANGED <<dlVars, pureVars>>

GetTrack ==
    /\ apc = "start" /\ op = "get_track"
    /\ IF query = "none"
         THEN AReturn(ANone) /\ UNCHANGED <<cfg, op, query, reqs, primary, legacy>>
         ELSE LegacyAttempt("legacy_get_track", "get_track")
    /\ UNCHANGED <<dlVars, pureVars>>

\* get_recommendations: _make_api_request("recommend_songs"), then the parse
GetRecommendations ==
    /\ apc = "start" /\ op = "get_recommendations"
    /\ LegacyAttempt("legacy_recommend_songs", "get_recommendations")
    /\ UNCHANGED <<dlVars, pureVars>>

\* ------------------------------------------- _parse_tracks_response alone
Parse ==
    /\ parsed = APending
    /\ payload \in PayloadsOf(MaxParseLen)
    /\ parsed' = ParseTracksResponse(payload)
    /\ UNCHANGED payload
    /\ UNCHANGED <<dlVars, apiVars, cipherVars, oggVars, queryVars>>

\* ============================================================ byte strings
MaxSeed == 1       \* byte patterns an input file is drawn from: 0..MaxSeed

Bytes == 0..255
Min(a, b) == IF a < b THEN a ELSE b
Max(a, b) == IF a > b THEN a ELSE b

\* The content of an input file: n bytes that vary along the file.
Pattern(seed, n) == [i \in 1..n |-> (seed * 53 + i * 7 + (i \div 256) * 3) % 256]

RECURSIVE XorBits(_, _, _)
XorBits(a, b, n) ==
    IF n = 0 THEN 0
    ELSE ((a + b) % 2) + 2 * XorBits(a \div 2, b \div 2, n - 1)

XorTable == [a \in Bytes |-> [b \in Bytes |-> XorBits(a, b, 8)]]
Xor(a, b) == XorTable[a][b]

\* ------------------------------------- SpotifyDownload.decrypt_audio
chunk_size == 8192
BlockSize == 16    \* an AES block: the bytes of keystream one counter value gives
AesKeys == {1, 2}

\* AES.new(key, AES.MODE_CTR, counter=Counter.new(128, initial_value=iv_int)):
\* counter block number n is the encryption under the key of iv_int + n.  The
\* block cipher is a fixed pseudo-random function of key and counter; of the
\* counter only its distance n from the fixed IV enters, the file sizes being
\* far from the 2^128 wrap.
AesBlock(k, n) ==
    [j \in 1..BlockSize |->
        (k * 97 + (n % 251) * 31 + (n \div 251) * 17 + j * 13) % 256]

\* byte number pos (from 0) of the keystream
Keystream(k, pos) == AesBlock(k, pos \div BlockSize)[(pos % BlockSize) + 1]

\* A cipher object that starts its keystream anew on every call.
CipherRestarts(pos, n) == 0

\* The cipher object goes on in the keystream where the last call stopped.
CipherAdvance(pos, n) == pos + n

\* cipher.decrypt(chunk) with the cipher standing at keystream byte pos
CipherDecrypt(k, pos, chunk) ==
    [i \in 1..Len(chunk) |-> Xor(chunk[i], Keystream(k, pos + i - 1))]

\* `await fin.read(chunk_size)`: up to chunk_size bytes from the read offset
ReadChunk(data, pos) == SubSeq(data, pos + 1, Min(pos + chunk_size, Len(data)))

\* the cipher, the source opened "rb" and the destination opened "wb"
DecryptOpen ==
    /\ dpc = "start"
    /\ cipher' = 0
    /\ finPos' = 0
    /\ fout' = <<>>
    /\ dpc' = "loop"
    /\ UNCHANGED <<aesKey, original, fin, runs>>
    /\ UNCHANGED <<dlVars, apiVars, parseVars, oggVars, queryVars>>

\* one turn of `while chunk := await fin.read(chunk_size)`
DecryptChunk ==
    /\ dpc = "loop"
    /\ LET chunk == ReadChunk(fin, finPos) IN
         IF chunk = <<>>
           THEN /\ dpc' = "closed"
                /\ runs' = runs + 1
                /\ UNCHANGED <<fout, finPos, cipher>>
           ELSE /\ fout' = fout \o CipherDecrypt(aesKey, cipher, chunk)
                /\ cipher' = CipherAdvance(cipher, Len(chunk))
                /\ finPos' = finPos + Len(chunk)
                /\ UNCHANGED <<dpc, runs>>
    /\ UNCHANGED <<aesKey, original, fin>>
    /\ UNCHANGED <<dlVars, apiVars, parseVars, oggVars, queryVars>>

\* The output of the first run is handed to decrypt_audio as its source.
DecryptAgain ==
    /\ dpc = "closed"
    /\ runs = 1
    /\ fin' = fout
    /\ dpc' = "start"
    /\ UNCHANGED <<aesKey, original, fout, finPos, cipher, runs>>
    /\ UNCHANGED <<dlVars, apiVars, parseVars, oggVars, queryVars>>

\* the counter-mode keystream applied to the whole input in one call
OnePass(k, data) == CipherDecrypt(k, 0, data)

Lengths == {0, 1, BlockSize - 1, BlockSize, BlockSize + 1,
            chunk_size - 1, chunk_size, chunk_size + 1, 2 * chunk_size + 1}

NoDecrypt ==
    /\ aesKey = 1
    /\ original = <<>>
    /\ fin = <<>>
    /\ fout = <<>>
    /\ finPos = 0
    /\ cipher = 0
    /\ dpc = "idle"
    /\ runs = 0

\* ------------------------------------------------------------ rebuild_ogg
MaxOggLen == 76    \* the length of a file handed to rebuild_ogg: 0..MaxOggLen

ogg_s == <<79, 103, 103, 83>>                              \* b"OggS"
zeroes == [i \in 1..10 |-> 0]                              \* b"\x00" * 10
vorbis_start == <<1, 30, 1, 118, 111, 114, 98, 105, 115>>  \* b"\x01\x1e\x01vorbis"
channels == <<2>>                                          \* b"\x02"
sample_rate == <<68, 172, 0, 0>>                           \* b"\x44\xac\x00\x00"
bit_rate == <<0, 226, 4, 0>>                               \* b"\x00\xe2\x04\x00"
packet_sizes == <<184, 1>>                                 \* b"\xb8\x01"

\* A repair that stops before the second page header.
OggPatchesFirstPage ==
    << [off |-> 0, data |-> ogg_s], [off |-> 6, data |-> zeroes],
       [off |-> 26, data |-> vorbis_start], [off |-> 39, data |-> channels],
       [off |-> 40, data |-> sample_rate], [off |-> 48, data |-> bit_rate],
       [off |-> 56, data |-> packet_sizes] >>

\* the seek / write pairs, in the order of the code
OggPatches ==
    << [off |-> 0, data |-> ogg_s], [off |-> 6, data |-> zeroes],
       [off |-> 26, data |-> vorbis_start], [off |-> 39, data |-> channels],
       [off |-> 40, data |-> sample_rate], [off |-> 48, data |-> bit_rate],
       [off |-> 56, data |-> packet_sizes], [off |-> 58, data |-> ogg_s],
       [off |-> 62, data |-> zeroes] >>

\* A file opened for appending: every write lands at the end of the file.
WriteAtEnd(bytes, off, data) == bytes \o data

\* `file.seek(off); file.write(data)` on a file opened "r+b": the bytes are
\* overwritten in place; a write past the end extends the file and the gap a
\* seek past the end leaves reads as zero bytes.
WriteAt(bytes, off, data) ==
    [i \in 1..Max(Len(bytes), off + Len(data)) |->
        IF i > off /\ i <= off + Len(data) THEN data[i - off]
        ELSE IF i <= Len(bytes) THEN bytes[i]
        ELSE 0]

RECURSIVE ApplyPatches(_, _)
ApplyPatches(bytes, patches) ==
    IF patches = <<>> THEN bytes
    ELSE ApplyPatches(WriteAt(bytes, Head(patches).off, Head(patches).data),
                      Tail(patches))

Missing == [exists |-> FALSE, bytes |-> <<>>]
File(bytes) == [exists |-> TRUE, bytes |-> bytes]

\* `if not os.path.exists(filename): ... return`, else the writes
RebuildOggFile(f) ==
    IF ~f.exists THEN f ELSE File(ApplyPatches(f.bytes, OggPatches))

RebuildOgg ==
    /\ oggRuns < 2
    /\ oggBefore' = oggFile
    /\ oggFile' = RebuildOggFile(oggFile)
    /\ oggRuns' = oggRuns + 1
    /\ UNCHANGED oggInput
    /\ UNCHANGED <<dlVars, apiVars, parseVars, cipherVars, queryVars>>

OggFiles ==
    {Missing} \cup {File(Pattern(seed, n)) : seed \in 0..MaxSeed, n \in 0..MaxOggLen}

NoRebuild ==
    /\ oggInput = Missing
    /\ oggBefore = Missing
    /\ oggFile = Missing
    /\ oggRuns = 2

\* -------------------------------------------------- ApiData._sanitize_query
MaxQueryLen == 3   \* characters of a query

\* A letter, a whitespace character and the two separators.
QueryChars == {"a", " ", "?", "#"}
Whitespace == {" "}
Queries == SeqsUpTo(QueryChars, MaxQueryLen)

RECURSIVE LStrip(_)
LStrip(s) == IF s # <<>> /\ Head(s) \in Whitespace THEN LStrip(Tail(s)) ELSE s

RECURSIVE RStrip(_)
RStrip(s) ==
    IF s # <<>> /\ s[Len(s)] \in Whitespace
      THEN RStrip(SubSeq(s, 1, Len(s) - 1))
      ELSE s

\* str.strip()
Strip(s) == RStrip(LStrip(s))

\* `s.split(sep)[0]`: what stands before the first separator
FirstPart(s, sep) ==
    LET at == {i \in 1..Len(s) : s[i] = sep} IN
    IF at = {} THEN s
    ELSE SubSeq(s, 1, (CHOOSE i \in at : \A j \in at : i <= j) - 1)

\* `query.strip().split("?")[0].split("#")[0]`
SanitizeQuery(q) == FirstPart(FirstPart(Strip(q), "?"), "#")

\* _sanitize_query applied to the query, then to its own result
Sanitize ==
    /\ sanRuns < 2
    /\ sanitized' = SanitizeQuery(IF sanRuns = 0 THEN rawQuery ELSE sanitized)
    /\ sanRuns' = sanRuns + 1
    /\ UNCHANGED rawQuery
    /\ UNCHANGED <<dlVars, apiVars, parseVars, cipherVars, oggVars>>

NoSanitize ==
    /\ rawQuery = <<>>
    /\ sanitized = <<>>
    /\ sanRuns = 2

NoBytes == NoDecrypt /\ NoRebuild /\ NoSanitize

\* ------------------------------------------------------- specifications
Step(p) ==
    \/ Invoke(p)
    \/ DownloadTrackEntry(p)
    \/ PrimaryDownload(p)
    \/ ExtractZip(p)
    \/ DirectDownload(p)
    \/ DownloadTrackExcept(p)
    \/ DownloadTrackReturn(p)
    \/ ProcessOriginalEntry(p)
    \/ PoDownload(p)
    \/ PoDecrypt(p)
    \/ PoRebuild(p)
    \/ PoFfmpeg(p)
    \/ PoCleanup(p)

\* The directory a task may find: leftovers of an interrupted run, and the
\* product of an earlier successful repack.
InitialDirs(tcs) ==
    LET slots == UNION {{EncFile(tc), DecFile(tc), OutFile(tc)} : tc \in tcs}
    IN {[q \in d |-> IF q[2] = ".ogg" THEN "repacked" ELSE "stale"] : d \in SUBSET slots}

IdleTasks ==
    /\ pc = [p \in Procs |-> "idle"]
    /\ ret = [p \in Procs |-> Pending]
    /\ poRet = [p \in Procs |-> Pending]
    /\ trace = [p \in Procs |-> <<>>]
    /\ calls = [p \in Procs |-> 0]
    /\ dlPath = [p \in Procs |-> NoPath]
    /\ touched = [p \in Procs |-> {}]
    /\ rmErr = [p \in Procs |-> {}]
    /\ entryOut = [p \in Procs |-> FALSE]

NoFacadeCall ==
    /\ cfg = [apiUrl |-> TRUE, apiKey |-> TRUE]
    /\ op = "none"
    /\ query = "none"
    /\ apc = "done"
    /\ reqs = <<>>
    /\ primary = NoCall
    /\ legacy = NoCall
    /\ aret = APending

NoParse ==
    /\ payload = PNone
    /\ parsed = ANone

NoDownload ==
    /\ IdleTasks
    /\ track = [p \in Procs |-> NoTrack]
    /\ fs = <<>>
    /\ budget = [p \in Procs |-> 0]

\* One task, invoked up to MaxCalls times on the same track.
Init ==
    /\ IdleTasks
    /\ \E t \in TracksOf({"t1", ""}) \cup {NoTrack} :
         /\ track = [p \in Procs |-> IF p = 1 THEN t ELSE NoTrack]
         /\ fs \in InitialDirs({t.tc})
    /\ budget = [p \in Procs |-> IF p = 1 THEN MaxCalls ELSE 0]
    /\ NoFacadeCall
    /\ NoParse
    /\ NoBytes

Next == \E p \in Procs : Step(p)

Spec == Init /\ [][Next]_vars

\* One invocation of the task when every awaited operation (HTTP download, file I/O, the
\* transcoder subprocess) eventually returns or raises: the event loop then
\* resumes the coroutine, so a task that can take a step eventually takes it.
InitFair ==
    /\ IdleTasks
    /\ \E t \in TracksOf({"t1", ""}) \cup {NoTrack} :
         /\ track = [p \in Procs |-> IF p = 1 THEN t ELSE NoTrack]
         /\ fs \in InitialDirs({t.tc})
    /\ budget = [p \in Procs |-> IF p = 1 THEN 1 ELSE 0]
    /\ NoFacadeCall
    /\ NoParse
    /\ NoBytes

SpecFair == InitFair /\ [][Next]_vars /\ \A p \in Procs : WF_vars(Step(p))

\* One call of a facade method, for every query kind and configuration.
InitFacade ==
    /\ NoDownload
    /\ NoParse
    /\ NoBytes
    /\ cfg \in [apiUrl : BOOLEAN, apiKey : BOOLEAN]
    /\ op \in {"search", "get_info", "get_track", "get_recommendations"}
    /\ query \in {"none", "text", "url"}
    /\ apc = "start"
    /\ reqs = <<>>
    /\ primary = NoCall
    /\ legacy = NoCall
    /\ aret = APending

NextFacade ==
    \/ SearchEntry
    \/ GetInfoEntry
    \/ GetInfoPrimary
    \/ GetInfoLegacy
    \/ SearchPrimary
    \/ SearchLegacy
    \/ GetTrack
    \/ GetRecommendations

SpecFacade == InitFacade /\ [][NextFacade]_vars

\* Two tasks, each invoked once, on tracks with distinct cache-key tokens, in
\* an empty directory.
ConcurrentTracks(tc) ==
    {t \in TracksOf({tc}) : t.id = "i1" /\ t.cdnurl /\ t.key = "valid"}

InitConcurrent ==
    /\ IdleTasks
    /\ track \in [Procs -> TracksOf(Tokens)]
    /\ track[1] \in ConcurrentTracks("t1")
    /\ track[2] \in ConcurrentTracks("t2")
    /\ fs = <<>>
    /\ budget = [p \in Procs |-> 1]
    /\ NoFacadeCall
    /\ NoParse
    /\ NoBytes

SpecConcurrent == InitConcurrent /\ [][Next]_vars

\* _parse_tracks_response applied to every payload.
InitParse ==
    /\ NoDownload
    /\ NoFacadeCall
    /\ payload \in PayloadsOf(MaxParseLen)
    /\ parsed = APending
    /\ NoBytes

NextParse == Parse

SpecParse == InitParse /\ [][NextParse]_vars

\* decrypt_audio run on an input, then on its own output.
InitDecrypt ==
    /\ NoDownload
    /\ NoFacadeCall
    /\ NoParse
    /\ NoRebuild
    /\ NoSanitize
    /\ aesKey \in AesKeys
    /\ \E seed \in 0..MaxSeed, n \in Lengths :
         /\ original = Pattern(seed, n)
         /\ fin = original
    /\ fout = <<>>
    /\ finPos = 0
    /\ cipher = 0
    /\ dpc = "start"
    /\ runs = 0

NextDecrypt ==
    \/ DecryptOpen
    \/ DecryptChunk
    \/ DecryptAgain

SpecDecrypt == InitDecrypt /\ [][NextDecrypt]_vars

\* rebuild_ogg called twice on a path.
InitRebuild ==
    /\ NoDownload
    /\ NoFacadeCall
    /\ NoParse
    /\ NoDecrypt
    /\ NoSanitize
    /\ oggInput \in OggFiles
    /\ oggBefore = oggInput
    /\ oggFile = oggInput
    /\ oggRuns = 0

NextRebuild == RebuildOgg

SpecRebuild == InitRebuild /\ [][NextRebuild]_vars

\* _sanitize_query applied to every query.
InitSanitize ==
    /\ NoDownload
    /\ NoFacadeCall
    /\ NoParse
    /\ NoDecrypt
    /\ NoRebuild
    /\ rawQuery \in Queries
    /\ sanitized = <<>>
    /\ sanRuns = 0

NextSanitize == Sanitize

SpecSanitize == InitSanitize /\ [][NextSanitize]_vars

\* ------------------------------------------------ reading an invocation
Done(p) == pc[p] = "done"
Has(p, ev) == \E i \in 1..Len(trace[p]) : trace[p][i] = ev
Count(s, ev) == Cardinality({i \in 1..Len(s) : s[i] = ev})
NetEvents == {"net_primary", "net_direct", "net_cdn"}
NetCalls(p) == Cardinality({i \in 1..Len(trace[p]) : trace[p][i] \in NetEvents})
PrimaryFailed(p) ==
    \/ Has(p, "no_id")
    \/ Has(p, "primary_raised")
    \/ Has(p, "primary_unsuccessful")
    \/ Has(p, "primary_badtype")
DirectFailed(p) ==
    \/ Has(p, "no_cdnurl")
    \/ Has(p, "direct_raised")
    \/ Has(p, "direct_unsuccessful")
LegacyReturned(p) == pc[p] \in {"dt_return", "done"} /\ Has(p, "po_start")

\* ---------------------------------------------------------------- claims

\* C1 (as stated): whenever the final artifact <tc>.ogg of a Spotify track
\* exists when download_track is invoked, the invocation makes no network
\* call and returns that path.
C1_CachedOutputNoNetwork ==
    \A p \in Procs :
      (Done(p) /\ track[p].platform = "spotify" /\ entryOut[p])
        => (NetCalls(p) = 0 /\ ret[p] = RetPath(OutFile(track[p].tc)))

\* C2 (as stated): once process_original has returned, neither
\* <tc>.encrypted.ogg nor <tc>.decrypted.ogg exists.
C2_NoIntermediatesAfterLegacy ==
    \A p \in Procs :
      LegacyReturned(p)
        => (~Exists(fs, EncFile(track[p].tc)) /\ ~Exists(fs, DecFile(track[p].tc)))

\* C2 (amended): once process_original has returned through its pipeline
\* (_cleanup ran), every intermediate file whose os.remove did not raise is
\* gone; an early return (existing output, missing CDN URL or key) touches
\* neither intermediate file.
C2_CleanupRemovesWhatItCan ==
    \A p \in Procs :
      LegacyReturned(p) =>
        LET inter == {EncFile(track[p].tc), DecFile(track[p].tc)} IN
        /\ Has(p, "cleanup") => \A f \in inter : f \notin rmErr[p] => ~Exists(fs, f)
        /\ ~Has(p, "cleanup") => touched[p] \cap inter = {}

\* C2 witness: a failed repack after both intermediates were written, with
\* every removal succeeding.
C2_Witness ==
    \E p \in Procs :
      /\ Done(p) /\ Has(p, "cleanup") /\ Has(p, "ffmpeg_nonzero")
      /\ rmErr[p] = {}
      /\ {EncFile(track[p].tc), DecFile(track[p].tc)} \subseteq touched[p]
      /\ ret[p] = RetNone

\* C3 (as stated): a file in a final-output slot <tc>.ogg is the product of a
\* repack that exited with code 0, and an invocation never returns anything
\* else from that slot.
C3_OutputOnlyFromSuccessfulRepack ==
    /\ \A q \in DOMAIN fs : q[2] = ".ogg" => fs[q] = "repacked"
    /\ \A p \in Procs :
         (Done(p) /\ ret[p].kind = "path" /\ ret[p].path[2] = ".ogg")
           => fs[ret[p].path] = "repacked"

\* C4: for a Spotify track every failure of the primary path runs
\* process_original exactly once and returns its result; for any other
\* platform process_original never runs and a failure returns none.
C4_FallbackOnlyForSpotify ==
    \A p \in Procs :
      (Done(p) /\ track[p].present) =>
        /\ (track[p].platform = "spotify" /\ PrimaryFailed(p))
             => /\ Count(trace[p], "po_start") = 1
                /\ poRet[p] # Pending
                /\ ret[p] = poRet[p]
        /\ track[p].platform # "spotify"
             => /\ Count(trace[p], "po_start") = 0
                /\ ~Has(p, "net_cdn") /\ ~Has(p, "decrypt") /\ ~Has(p, "ffmpeg")
                /\ DirectFailed(p) => ret[p] = RetNone

\* C4 witness: a Spotify download of an unexpected content type that the
\* legacy pipeline then completes.
C4_Witness ==
    \E p \in Procs :
      /\ Done(p) /\ track[p].platform = "spotify"
      /\ Has(p, "primary_badtype") /\ Has(p, "ffmpeg_zero")
      /\ ret[p] = RetPath(OutFile(track[p].tc))

\* ------------------------------------------------ reading a facade call
ADone == apc = "done"
IsPrimaryReq(r) == r \in {"primary_search", "primary_url"}
IsLegacyReq(r) ==
    r \in {"legacy_search_track", "legacy_get_url", "legacy_get_track",
           "legacy_recommend_songs"}
\* a response that carries no results: nothing, no `results` key, null, []
NoResults(d) == ~Truthy(d) \/ ~HasResults(d) \/ d.results = <<>>
\* a non-empty query that search does not hand to get_info
SearchesText == op = "search" /\ query # "none" /\ ~IsValid(query)
\* what line 121 / 149 make of the legacy data
ParsedLegacy == IF Truthy(legacy.data) THEN ParseTracksResponse(legacy.data) ELSE ANone

C6_LegacyOnlyAfterFailedPrimary ==
    op = "search" =>
      /\ \A i \in 1..Len(reqs) :
           IsLegacyReq(reqs[i]) => \E j \in 1..(i - 1) : IsPrimaryReq(reqs[j])
      /\ legacy.sent =>
           /\ primary.sent
           /\ primary.threw \/ primary.parseRaised \/ NoResults(primary.data)
      /\ Cardinality({i \in 1..Len(reqs) : IsPrimaryReq(reqs[i])}) <= 1
      /\ Cardinality({i \in 1..Len(reqs) : IsLegacyReq(reqs[i])}) <= 1
      /\ legacy.sent <=> \E i \in 1..Len(reqs) : IsLegacyReq(reqs[i])
      /\ primary.sent <=> \E i \in 1..Len(reqs) : IsPrimaryReq(reqs[i])

\* C6 witness: the primary search returned an empty list and the legacy
\* endpoint was then requested once.
C6_Witness ==
    /\ ADone /\ op = "search"
    /\ primary.data = [shape |-> "results", results |-> <<>>]
    /\ reqs = <<"primary_search", "legacy_search_track">>
    /\ aret.kind = "tracks"

\* C7 (as stated): get_info on a recognized URL requests the legacy by-URL
\* lookup whenever the primary call threw or returned no results (an empty
\* `results` list included), and returns its parsed result.
C7_GetInfoFallsBackOnNoResults ==
    (ADone /\ op = "get_info" /\ primary.sent
       /\ (primary.threw \/ NoResults(primary.data)))
      => /\ legacy.sent
         /\ ~legacy.threw => aret = ParsedLegacy

\* C8 (as stated): no facade method and no download ever raises to its caller.
C8_NothingRaises ==
    /\ aret.kind # "raised"
    /\ \A p \in Procs : ret[p].kind # "raised"

\* C9 (as stated): the parser returns none unless the payload is a mapping
\* with a `results` key; otherwise it returns the tracks of exactly the
\* mapping entries of `results`, in order, and none when there is none.
C9_ParseKeepsExactlyTheMappings ==
    parsed # APending =>
      IF ~(IsDict(payload) /\ HasResults(payload)) THEN parsed = ANone
      ELSE LET maps == SelectSeq(payload.results, IsMapping) IN
           IF maps = <<>> THEN parsed = ANone
           ELSE parsed = ATracks([i \in 1..Len(maps) |-> MusicTrack(maps[i])])

\* C10 (as stated): two invocations for tracks with distinct cache-key tokens
\* never create, write or delete the same path.
C10_DisjointPaths ==
    track[1].tc # track[2].tc => touched[1] \cap touched[2] = {}

\* ------------------------------------------------- reading the byte runs
DecryptClosed == dpc = "closed"

\* C11: for a fixed key and the fixed IV and every input length (0, 1, one
\* below, at and one above the chunk size among them), the output of the
\* chunked decryptor has the length of its input and equals the counter-mode
\* keystream applied to the whole input in one pass, and the decryptor run on
\* its own output gives back the original bytes.
C11_RoundTripAndChunkIndependence ==
    DecryptClosed =>
      /\ Len(fout) = Len(fin)
      /\ fout = OnePass(aesKey, fin)
      /\ runs = 1 => fin = original
      /\ runs = 2 => fout = original

\* C11 witness: an input one byte longer than a chunk, changed by the first
\* run and restored by the second.
C11_Witness ==
    /\ DecryptClosed /\ runs = 2
    /\ Len(original) = chunk_size + 1
    /\ fin # original
    /\ fin[chunk_size + 1] # original[chunk_size + 1]
    /\ fout = original

\* C12: for every file content, of any length (shorter than 72 bytes
\* included), rebuild_ogg applied twice leaves the file byte-identical to
\* rebuild_ogg applied once.
C12_RebuildIdempotent ==
    oggRuns = 2 => oggFile = oggBefore

\* C12 witness: a file shorter than the repaired header, changed and extended
\* by the first call and left alone by the second.
C12_Witness ==
    /\ oggRuns = 2
    /\ oggInput.exists /\ Len(oggInput.bytes) = 30
    /\ Len(oggFile.bytes) > 30
    /\ oggFile = oggBefore

\* the 4-byte little-endian form of n
LittleEndian4(n) == [i \in 1..4 |-> (n \div (256 ^ (i - 1))) % 256]

\* the layout the repaired header is to have: offset and constant
HeaderLayout ==
    << [off |-> 0, data |-> <<79, 103, 103, 83>>],
       [off |-> 6, data |-> <<0, 0, 0, 0, 0, 0, 0, 0, 0, 0>>],
       [off |-> 26, data |-> <<1, 30, 1, 118, 111, 114, 98, 105, 115>>],
       [off |-> 39, data |-> <<2>>],
       [off |-> 40, data |-> LittleEndian4(44100)],
       [off |-> 48, data |-> LittleEndian4(320000)],
       [off |-> 56, data |-> <<184, 1>>],
       [off |-> 58, data |-> <<79, 103, 103, 83>>],
       [off |-> 62, data |-> <<0, 0, 0, 0, 0, 0, 0, 0, 0, 0>>] >>

Holds(bytes, r) == \A i \in 1..Len(r.data) : bytes[r.off + i] = r.data[i]
Covers(r, i) == i > r.off /\ i <= r.off + Len(r.data)
Apart(r, s) == r.off + Len(r.data) <= s.off \/ s.off + Len(s.data) <= r.off

\* C19: after rebuild_ogg on an existing file of at least 72 bytes the nine
\* ranges at offsets 0, 6, 26, 39, 40, 48, 56, 58 and 62 hold the fixed
\* constants, the ranges the code writes do not overlap, and the length and
\* every byte outside the ranges are as before; on a path that does not exist
\* the call returns and creates no file.
C19_RebuildPostconditionAndFrame ==
    oggRuns = 1 =>
      /\ (oggBefore.exists /\ Len(oggBefore.bytes) >= 72) =>
           /\ oggFile.exists
           /\ Len(oggFile.bytes) = Len(oggBefore.bytes)
           /\ \A k \in 1..Len(HeaderLayout) : Holds(oggFile.bytes, HeaderLayout[k])
           /\ \A k, l \in 1..Len(OggPatches) :
                k # l => Apart(OggPatches[k], OggPatches[l])
           /\ \A i \in 1..Len(oggBefore.bytes) :
                (\A k \in 1..Len(HeaderLayout) : ~Covers(HeaderLayout[k], i))
                  => oggFile.bytes[i] = oggBefore.bytes[i]
      /\ ~oggBefore.exists => oggFile = Missing

\* C19 witness: a file of 76 bytes whose header was rewritten and whose bytes
\* between and after the ranges are the old ones.
C19_Witness ==
    /\ oggRuns = 1
    /\ oggBefore.exists /\ Len(oggBefore.bytes) = 76
    /\ oggFile.bytes # oggBefore.bytes
    /\ SubSeq(oggFile.bytes, 1, 4) = ogg_s
    /\ oggFile.bytes[5] = oggBefore.bytes[5] /\ oggFile.bytes[5] # 0
    /\ oggFile.bytes[73] = oggBefore.bytes[73]

\* a `?query`, a `#fragment`, or both, appended to a query
QuerySuffixes ==
    {<<"?">>, <<"#">>, <<"?", "a">>, <<"#", "a">>, <<"?", "a", "#", "a">>}

\* C13 (as stated): for every query the sanitized string holds no '?' and no
\* '#' and neither starts nor ends with whitespace; the query with a `?query`
\* and/or `#fragment` suffix appended sanitizes to the same string; and
\* sanitizing the sanitized string returns it unchanged.
C13_SanitizeStable ==
    /\ sanRuns = 1 =>
         /\ \A i \in 1..Len(sanitized) : sanitized[i] \notin {"?", "#"}
         /\ sanitized # <<>> =>
              /\ Head(sanitized) \notin Whitespace
              /\ sanitized[Len(sanitized)] \notin Whitespace
         /\ \A sfx \in QuerySuffixes : SanitizeQuery(rawQuery \o sfx) = sanitized
    /\ sanRuns = 2 => sanitized = SanitizeQuery(rawQuery)

\* C14: when API URL or API key is not configured, is_valid is false for
\* every URL, get_info returns none without a network request, and no facade
\* method sends a request to the configured API.
C14_NoCredentialsNoLegacyRequest ==
    (~cfg.apiUrl \/ ~cfg.apiKey) =>
      /\ \A q \in {"none", "text", "url"} : ~IsValid(q)
      /\ (ADone /\ op = "get_info") => (aret = ANone /\ reqs = <<>>)
      /\ \A i \in 1..Len(reqs) : ~IsLegacyReq(reqs[i])
      /\ ~legacy.sent

\* C14 witness: without an API key a search for a URL of a known platform is
\* not handed to get_info, asks the new endpoint only and returns none.
C14_Witness ==
    /\ ADone /\ op = "search" /\ query = "url"
    /\ cfg.apiUrl /\ ~cfg.apiKey
    /\ primary.threw
    /\ legacy.called /\ ~legacy.sent
    /\ reqs = <<"primary_search">>
    /\ aret = ANone

\* ------------------------------------------- reading the legacy pipeline
StageRank(ev) ==
    CASE ev = "net_cdn" -> 1
      [] ev = "decrypt" -> 2
      [] ev \in {"rebuild", "rebuild_missing"} -> 3
      [] ev = "ffmpeg" -> 4
      [] ev = "cleanup" -> 5
      [] OTHER -> 0
IsStage(ev) == StageRank(ev) > 0
Stages(p) == SelectSeq(trace[p], IsStage)
StageFailures == {"cdn_raised", "decrypt_raised", "ffmpeg_raised", "ffmpeg_nonzero"}
Before(p, a, b) ==
    \E i, j \in 1..Len(trace[p]) : i < j /\ trace[p][i] = a /\ trace[p][j] = b

\* C15: the stages of the legacy pipeline run in the order CDN download,
\* decrypt, header repair, repack, cleanup, none of them twice and none
\* before the one before it; once download, decrypt or repack raised (a
\* non-zero exit code of the transcoder included) only cleanup runs and
\* process_original returns none; and the pipeline returns the final path
\* only after a repack with exit code 0 and the cleanup after it.
C15_StagesInOrder ==
    \A p \in Procs :
      LET st == Stages(p) IN
      /\ \A i \in 1..Len(st) :
           \/ StageRank(st[i]) = i
           \/ st[i] = "cleanup" /\ i = Len(st)
      /\ Count(st, "cleanup") <= 1
      /\ \A i \in 1..Len(trace[p]) :
           trace[p][i] \in StageFailures =>
             /\ \A j \in (i + 1)..Len(trace[p]) : trace[p][j] = "cleanup"
             /\ pc[p] \notin {"po_decrypt", "po_rebuild", "po_ffmpeg", "po_cleanup_ok"}
             /\ LegacyReturned(p) => (poRet[p] = RetNone /\ Has(p, "cleanup"))
      /\ (LegacyReturned(p) /\ Has(p, "net_cdn")) =>
           /\ Has(p, "cleanup")
           /\ poRet[p] # RetNone =>
                /\ poRet[p] = RetPath(OutFile(track[p].tc))
                /\ Before(p, "ffmpeg_zero", "cleanup")

\* C15 witness: the transcoder exits with a non-zero code after download,
\* decrypt and repair; cleanup runs and none is returned.
C15_Witness ==
    \E p \in Procs :
      /\ Done(p) /\ Has(p, "cdn_ok")
      /\ Stages(p) = <<"net_cdn", "decrypt", "rebuild", "ffmpeg", "cleanup">>
      /\ Before(p, "ffmpeg_nonzero", "cleanup")
      /\ poRet[p] = RetNone /\ ret[p] = RetNone

\* the .mp3 files the invocation of task p put into the cache directory
ExtractedOnDisk(p) == {f \in touched[p] : IsMp3(f) /\ f # dlPath[p] /\ Exists(fs, f)}

\* C16 (as stated): whenever the primary download returned an archive, after
\* the branch has completed the archive is gone from the disk and the
\* returned list is exactly the set of .mp3 entries that are now in the cache
\* directory.
C16_ArchiveGoneListExact ==
    \A p \in Procs :
      (Done(p) /\ Has(p, "primary_zip")) =>
        /\ ~Exists(fs, dlPath[p])
        /\ ret[p].kind = "list"
        /\ Range(ret[p].paths) = ExtractedOnDisk(p)

\* C17 (as stated): when the encrypted source does not exist, decrypt_audio
\* logs and returns without raising and without writing anything; only its
\* other failures reach the caller.
C17_MissingSourceIsNoOp ==
    \A p \in Procs :
      /\ Has(p, "source_missing") =>
           /\ ~Has(p, "decrypt_raised")
           /\ DecFile(track[p].tc) \notin touched[p]
      /\ (Has(p, "decrypt_raised") /\ ~Has(p, "source_missing")) =>
           pc[p] \in {"po_cleanup_fail", "dt_return", "done"}

\* ------------------------------------------------ reading a termination
PcRank(l) ==
    CASE l = "idle" -> 0
      [] l = "dt_start" -> 1
      [] l \in {"dt_primary", "dt_direct"} -> 2
      [] l = "dt_extract" -> 3
      [] l = "dt_except" -> 4
      [] l = "po_start" -> 5
      [] l = "po_download" -> 6
      [] l = "po_decrypt" -> 7
      [] l = "po_rebuild" -> 8
      [] l = "po_ffmpeg" -> 9
      [] l \in {"po_cleanup_ok", "po_cleanup_fail"} -> 10
      [] l = "dt_return" -> 11
      [] l = "done" -> 12
      [] OTHER -> 13
Running(p) == pc[p] \notin {"idle", "done"}
Success(p) == ret[p].kind = "path" \/ (ret[p].kind = "list" /\ ret[p].paths # <<>>)
Failed(p) == ret[p].kind = "none" \/ (ret[p].kind = "list" /\ ret[p].paths = <<>>)

\* an invocation under way can always go on, and has returned exactly one of
\* Success and Failed when it is over; the new API and the direct download
\* are each asked at most once, process_original runs at most once, and
\* nothing of the primary path comes after it
C18_OneAttemptEach ==
    \A p \in Procs :
      /\ Running(p) => ENABLED Step(p)
      /\ Done(p) => (Success(p) # Failed(p))
      /\ Count(trace[p], "net_primary") + Count(trace[p], "net_direct") <= 1
      /\ Count(trace[p], "po_start") <= 1
      /\ Count(trace[p], "net_cdn") <= 1
      /\ ~Before(p, "po_start", "net_primary")
      /\ ~Before(p, "po_start", "net_direct")
      /\ ~Before(p, "po_start", "extract")

\* every step of an invocation moves it forward, and its result stays
C18_Forward ==
    \A p \in Procs :
      /\ pc'[p] # pc[p] =>
           \/ PcRank(pc'[p]) > PcRank(pc[p])
           \/ pc[p] = "done" /\ pc'[p] = "dt_start"
      /\ (Done(p) /\ Done(p)') => ret'[p] = ret[p]

\* C18: provided every external operation eventually returns or raises,
\* every invocation of download_track ends, in exactly one of Success (a path
\* or a list returned) and Failed (none or an empty list returned); on the
\* way the primary path is attempted at most once and the legacy path at most
\* once, and the legacy path is never followed by a primary attempt.
C18_Terminates ==
    /\ []C18_OneAttemptEach
    /\ [][C18_Forward]_vars
    /\ \A p \in Procs : (pc[p] = "dt_start") ~> Done(p)

\* C18 witness: an invocation that went through the primary path once, then
\* through the legacy path once, and ended in Success.
C18_Witness ==
    \E p \in Procs :
      /\ Done(p) /\ Success(p)
      /\ Has(p, "primary_unsuccessful")
      /\ Count(trace[p], "net_primary") = 1
      /\ Count(trace[p], "po_start") = 1
      /\ Has(p, "ffmpeg_zero")

\* C20 (as stated): the legacy path returns the final path only if the CDN
\* download of that invocation reported success; after a download that
\* returned success = false without raising, process_original neither
\* decrypts nor repacks the <tc>.encrypted.ogg it finds and returns none.
C20_OutputOnlyAfterSuccessfulCdn ==
    \A p \in Procs :
      /\ Has(p, "cdn_unsuccessful") =>
           /\ ~Has(p, "decrypt")
           /\ ~Has(p, "ffmpeg")
           /\ LegacyReturned(p) => poRet[p] = RetNone
      /\ (LegacyReturned(p) /\ Has(p, "net_cdn") /\ poRet[p].kind = "path")
           => Has(p, "cdn_ok")

====
